---------------------------- MODULE Spec2Model ----------------------------
(***************************************************************************)
(* Model of HexPattern/HexPattern.py: the honeycomb layout solver          *)
(* (_calculate_hex_layout), the hex width helper (_calculate_hex_width),   *)
(* the frame resolver (_get_face_dimensions_from_edge) and the cut         *)
(* operation (_execute_hex_pattern).                                       *)
(*                                                                         *)
(* Lengths are exact numbers of the field Q(sqrt 3): every quantity the    *)
(* code computes from rational inputs with math.sqrt(3), cos and sin of    *)
(* multiples of 30 degrees lies in it.  A number is a record               *)
(* [a, b, d] standing for (a + b*sqrt(3)) / d, kept in lowest terms with   *)
(* d > 0, so that record equality is numeric equality.  Rounding of IEEE   *)
(* doubles is not modelled.                                                *)
(***************************************************************************)
EXTENDS Integers, Sequences, FiniteSets, TLC

(***************************************************************************)
(* Exact arithmetic in Q(sqrt 3)                                           *)
(***************************************************************************)
Abs(i) == IF i < 0 THEN -i ELSE i

RECURSIVE GCD(_, _)
GCD(i, j) == IF j = 0 THEN i ELSE GCD(j, i % j)

\* (a + b*sqrt(3)) / d in lowest terms, d > 0
Norm(a, b, d) ==
    LET g == GCD(GCD(Abs(a), Abs(b)), Abs(d))
        s == IF d < 0 THEN -1 ELSE 1
    IN  [a |-> s * (a \div g), b |-> s * (b \div g), d |-> s * (d \div g)]

\* the rational n/d
Q(n, d) == Norm(n, 0, d)

\* the integer i
I(i) == [a |-> i, b |-> 0, d |-> 1]

\* math.sqrt(3)
Sqrt3 == [a |-> 0, b |-> 1, d |-> 1]

Neg(x) == [a |-> -x.a, b |-> -x.b, d |-> x.d]

Add(x, y) ==
    LET l == (x.d \div GCD(x.d, y.d)) * y.d
    IN  Norm(x.a * (l \div x.d) + y.a * (l \div y.d),
             x.b * (l \div x.d) + y.b * (l \div y.d), l)

Sub(x, y) == Add(x, Neg(y))

Mul(x, y) ==
    LET g1 == GCD(GCD(Abs(x.a), Abs(x.b)), y.d)
        g2 == GCD(GCD(Abs(y.a), Abs(y.b)), x.d)
        xa == x.a \div g1
        xb == x.b \div g1
        ya == y.a \div g2
        yb == y.b \div g2
    IN  Norm(xa * ya + 3 * xb * yb, xa * yb + xb * ya,
             (x.d \div g2) * (y.d \div g1))

\* 1/y for y # 0: the conjugate over the norm a^2 - 3 b^2
Inv(y) == Norm(y.a * y.d, -(y.b * y.d), y.a * y.a - 3 * y.b * y.b)

Div(x, y) == Mul(x, Inv(y))

\* p/q > [t0; t1, t2, ...], the tail of the continued fraction
\* sqrt(3) = [1; 1, 2, 1, 2, ...] that starts with term t (0: the head 1,
\* 1: a term 1, 2: a term 2); p >= 0, q > 0.  Exact, and free of squares.
RECURSIVE AboveSqrt3(_, _, _)
AboveSqrt3(p, q, t) ==
    LET term == IF t = 2 THEN 2 ELSE 1
        next == IF t = 1 THEN 2 ELSE 1
        f == p \div q
        r == p % q
    IN  IF f > term THEN TRUE
        ELSE IF f < term THEN FALSE
        ELSE IF r = 0 THEN FALSE
        ELSE ~AboveSqrt3(q, r, next)

\* the sign of a + b*sqrt(3): -1, 0 or 1
SurdSign(a, b) ==
    IF b = 0 THEN (IF a > 0 THEN 1 ELSE IF a < 0 THEN -1 ELSE 0)
    ELSE IF a = 0 THEN (IF b > 0 THEN 1 ELSE -1)
    ELSE IF a > 0 /\ b > 0 THEN 1
    ELSE IF a < 0 /\ b < 0 THEN -1
    ELSE IF a > 0 THEN (IF AboveSqrt3(a, -b, 0) THEN 1 ELSE -1)
    ELSE (IF AboveSqrt3(-a, b, 0) THEN -1 ELSE 1)

Sign(x) == SurdSign(x.a, x.b)

Lt(x, y) == Sign(Sub(x, y)) < 0
Le(x, y) == Sign(Sub(x, y)) <= 0
Gt(x, y) == Sign(Sub(x, y)) > 0
Ge(x, y) == Sign(Sub(x, y)) >= 0

(***************************************************************************)
(* Input domains                                                           *)
(***************************************************************************)
\* largest hexagon count of the full range 1..MaxNumX
MaxNumX == 3

\* most closed regions the host reports for one sketch
MaxProfiles == 2

\* hexagon counts: the spinner's range starts at 1; 5 and 10 are the
\* counts of the unit tests
NumXs == (1..MaxNumX) \cup {5, 10}

\* <<width, height>> of the faces a direct call is given
Faces ==
    { <<Q(1, 1000), Q(1, 1000)>>, <<Q(1, 500), Q(1, 250)>>, <<Q(1, 1), Q(1, 1)>>,
      <<Q(10, 1), Q(3, 1)>>, <<Q(10, 1), Q(10, 1)>>, <<Q(3, 1), Q(10, 1)>>,
      <<Q(10, 1), Q(1, 1)>> }

Margins == { Q(0, 1), Q(1, 10), Q(1, 1), Q(4, 1) }

(***************************************************************************)
(* State                                                                   *)
(***************************************************************************)
VARIABLES
    \* arguments of _calculate_hex_layout
    face_width, face_height, num_x, margin, pointy_top, start_from_min_y,
    allow_partial,
    \* its locals
    radius, hex_width, hex_height, row_spacing, col_spacing, row, col,
    centers,
    \* grid[i] = <<row, col>> of centers[i] (bookkeeping, not in the code)
    grid,
    \* its position and its outcome (nothing yet, a return value, a raise)
    lpc, result,
    \* the host's geometry of the selected face and edge, in sketch
    \* coordinates: the face's extent along sketch X and Y, |cos| of the
    \* angle between the edge and sketch X, the edge's midpoint, the
    \* face's center
    sketch_x_length, sketch_y_length, dot, edge_mid_x, edge_mid_y,
    sketch_center_x, sketch_center_y,
    \* _execute_hex_pattern: position, face_info, the design (sketches of
    \* the component, lines of the new sketch, its compute flag, features,
    \* timeline and its groups), the profile areas read, the accepted
    \* profiles, the hexagons drawn so far, the message boxes shown
    epc, face_info, sketches, lines, isComputeDeferred, features, timeline,
    timeline_start, groups, profile_count, profiles, hex_profiles, drawn,
    messages

layout_vars ==
    <<face_width, face_height, num_x, margin, pointy_top, start_from_min_y,
      allow_partial, radius, hex_width, hex_height, row_spacing,
      col_spacing, row, col, centers, grid, lpc, result>>

host_vars ==
    <<sketch_x_length, sketch_y_length, dot, edge_mid_x, edge_mid_y,
      sketch_center_x, sketch_center_y>>

design_vars ==
    <<sketches, lines, isComputeDeferred, features, timeline,
      timeline_start, groups>>

exec_vars ==
    <<epc, face_info, design_vars, profile_count, profiles, hex_profiles,
      drawn, messages>>

vars == <<layout_vars, host_vars, exec_vars>>

(***************************************************************************)
(* _calculate_hex_layout: the dimension solver.  The flag pointy_top       *)
(* selects the FLAT-top branch when TRUE (flat edges at top and bottom)    *)
(* and the pointy-top branch when FALSE, as in the code.                   *)
(***************************************************************************)
\* the 0.001 slack of every boundary comparison
Tol == Q(1, 1000)

\* FitWidth with the margins added to the face width
FitWidthAdded(fw, n, m) == Add(fw, Mul(I(n - 1), m))

\* face_width - (num_x - 1) * margin
FitWidth(fw, n, m) == Sub(fw, Mul(I(n - 1), m))

\* FlatRadius with the column pitch 3r taken num_x times
FlatRadiusWide(fw, n, m) == Div(FitWidth(fw, n, m), I(3 * n))

\* flat-top: radius = (face_width - (num_x-1)*margin) / (3*num_x - 1)
FlatRadius(fw, n, m) == Div(FitWidth(fw, n, m), I(3 * n - 1))

\* PointyHexWidth with one margin per hexagon
PointyHexWidthGaps(fw, n, m) == Div(Sub(fw, Mul(I(n), m)), I(n))

\* pointy-top: hex_width = (face_width - (num_x-1)*margin) / num_x
PointyHexWidth(fw, n, m) == Div(FitWidth(fw, n, m), I(n))

\* MarginTooLarge with the tests written "< 0"
MarginTooLargeStrict(fw, n, m, pt) ==
    IF pt THEN Lt(FlatRadius(fw, n, m), I(0))
    ELSE Lt(PointyHexWidth(fw, n, m), I(0))

\* the test that raises RuntimeError("Hexagon margin too large ...")
MarginTooLarge(fw, n, m, pt) ==
    IF pt THEN Le(FlatRadius(fw, n, m), I(0))
    ELSE Le(PointyHexWidth(fw, n, m), I(0))

SolveRadius(fw, n, m, pt) ==
    IF pt THEN FlatRadius(fw, n, m)
    ELSE Div(PointyHexWidth(fw, n, m), Sqrt3)

SolveHexWidth(fw, n, m, pt) ==
    IF pt THEN Mul(I(2), FlatRadius(fw, n, m))
    ELSE PointyHexWidth(fw, n, m)

SolveHexHeight(fw, n, m, pt) ==
    IF pt THEN Mul(Sqrt3, SolveRadius(fw, n, m, pt))
    ELSE Mul(I(2), SolveRadius(fw, n, m, pt))

\* SolveRowSpacing with the pointy-top pitch in both branches
SolveRowSpacingPointy(fw, n, m, pt) ==
    Add(Mul(Q(3, 4), SolveHexHeight(fw, n, m, pt)), Div(Mul(m, Sqrt3), I(2)))

SolveRowSpacing(fw, n, m, pt) ==
    IF pt THEN Add(Mul(Q(1, 2), SolveHexHeight(fw, n, m, pt)), Mul(m, Q(1, 2)))
    ELSE Add(Mul(Q(3, 4), SolveHexHeight(fw, n, m, pt)),
             Div(Mul(m, Sqrt3), I(2)))

SolveColSpacing(fw, n, m, pt) ==
    IF pt THEN Add(Mul(I(3), SolveRadius(fw, n, m, pt)), m)
    ELSE Add(SolveHexWidth(fw, n, m, pt), m)

\* the message of the RuntimeError: its text and the count formatted in it
MarginError(n) ==
    [text |-> "Hexagon margin too large for face width with {num_x} hexagons.",
     num_x |-> n]

(***************************************************************************)
(* _calculate_hex_layout: the quantities derived from the locals           *)
(***************************************************************************)
row_x_offset == Div(col_spacing, I(2))
hex_half_width == Div(hex_width, I(2))
hex_half_height == Div(hex_height, I(2))
min_x == Div(Neg(face_width), I(2))
max_x == Div(face_width, I(2))
min_y == Div(Neg(face_height), I(2))
max_y == Div(face_height, I(2))
start_x == Add(min_x, hex_half_width)
\* start_y without the half height
start_y_edge == IF start_from_min_y THEN min_y ELSE max_y

start_y ==
    IF start_from_min_y THEN Add(min_y, hex_half_height)
    ELSE Sub(max_y, hex_half_height)
y_direction == IF start_from_min_y THEN 1 ELSE -1
first_row == IF allow_partial THEN -1 ELSE 0

\* RowY without the row's share: every row at start_y
RowYFixed(r) == start_y

\* y = start_y + row * row_spacing * y_direction
RowY(r) == Add(start_y, Mul(Mul(I(r), row_spacing), I(y_direction)))

\* XOffset with a remainder that keeps the sign of row
XOffsetSigned(r) == IF r > 0 /\ r % 2 = 1 THEN row_x_offset ELSE I(0)

\* x_offset = row_x_offset if (abs(row) % 2 == 1) else 0
XOffset(r) == IF Abs(r) % 2 = 1 THEN row_x_offset ELSE I(0)

\* ColX without the odd rows' offset
ColXAligned(r, c) == Add(start_x, Mul(I(c), col_spacing))

\* x = start_x + col * col_spacing + x_offset
ColX(r, c) == Add(Add(start_x, Mul(I(c), col_spacing)), XOffset(r))

\* LeftHexX two columns before column 0
LeftHexXFar(r) == Sub(Add(start_x, XOffset(r)), Mul(I(2), col_spacing))

\* left_hex_x = start_x + x_offset - col_spacing
LeftHexX(r) == Sub(Add(start_x, XOffset(r)), col_spacing)

\* RowBreaks with the partial mode's test in both modes
RowBreaksPartial(r) ==
    LET y == RowY(r)
    IN  IF y_direction > 0
        THEN Gt(Sub(y, hex_half_height), Add(max_y, Tol))
        ELSE Lt(Add(y, hex_half_height), Sub(min_y, Tol))

\* the row loop's break
RowBreaks(r) ==
    LET y == RowY(r)
    IN  IF allow_partial
        THEN IF y_direction > 0
             THEN Gt(Sub(y, hex_half_height), Add(max_y, Tol))
             ELSE Lt(Add(y, hex_half_height), Sub(min_y, Tol))
        ELSE IF y_direction > 0
             THEN Gt(Add(y, hex_half_height), Add(max_y, Tol))
             ELSE Lt(Sub(y, hex_half_height), Sub(min_y, Tol))

\* the row loop's continue: a row wholly before the face (partial mode)
RowSkipped(r) ==
    LET y == RowY(r)
    IN  /\ allow_partial
        /\ IF y_direction > 0
           THEN Lt(Add(y, hex_half_height), Sub(min_y, Tol))
           ELSE Gt(Sub(y, hex_half_height), Add(max_y, Tol))

\* the extra hex left of column 0 is appended (partial mode)
LeftHexVisible(r) == Gt(Add(LeftHexX(r), hex_half_width), Sub(min_x, Tol))

\* ColStops without the tolerance in full-hex mode
ColStopsFlush(r, c) ==
    IF allow_partial
    THEN Gt(Sub(ColX(r, c), hex_half_width), Add(max_x, Tol))
    ELSE \/ ~(c < num_x)
         \/ Ge(Add(ColX(r, c), hex_half_width), max_x)

\* the column loop ends
ColStops(r, c) ==
    IF allow_partial
    THEN Gt(Sub(ColX(r, c), hex_half_width), Add(max_x, Tol))
    ELSE \/ ~(c < num_x)
         \/ Gt(Add(ColX(r, c), hex_half_width), Add(max_x, Tol))

(***************************************************************************)
(* _calculate_hex_layout: the steps                                        *)
(***************************************************************************)
NoResult == [kind |-> "none"]

\* face_info before _get_face_dimensions_from_edge returned, or its None
NoFaceInfo == [ok |-> FALSE]

args_vars ==
    <<face_width, face_height, num_x, margin, pointy_top, start_from_min_y,
      allow_partial>>
dims_vars == <<radius, hex_width, hex_height, row_spacing, col_spacing>>

\* radius <= 0 (flat-top) or hex_width <= 0 (pointy-top): raise
LayoutRaise ==
    /\ lpc = "solve"
    /\ MarginTooLarge(face_width, num_x, margin, pointy_top)
    /\ result' = [kind |-> "raise", message |-> MarginError(num_x)]
    /\ lpc' = "raised"
    /\ UNCHANGED <<args_vars, dims_vars, row, col, centers, grid>>
    /\ UNCHANGED <<host_vars, exec_vars>>

\* the dimensions, then the loop's first row
LayoutSolve ==
    /\ lpc = "solve"
    /\ ~MarginTooLarge(face_width, num_x, margin, pointy_top)
    /\ radius' = SolveRadius(face_width, num_x, margin, pointy_top)
    /\ hex_width' = SolveHexWidth(face_width, num_x, margin, pointy_top)
    /\ hex_height' = SolveHexHeight(face_width, num_x, margin, pointy_top)
    /\ row_spacing' = SolveRowSpacing(face_width, num_x, margin, pointy_top)
    /\ col_spacing' = SolveColSpacing(face_width, num_x, margin, pointy_top)
    /\ centers' = <<>>
    /\ grid' = <<>>
    /\ row' = first_row
    /\ lpc' = "row"
    /\ UNCHANGED <<args_vars, col, result>>
    /\ UNCHANGED <<host_vars, exec_vars>>

\* break out of the row loop: return radius, centers, pointy_top
RowBreak ==
    /\ lpc = "row"
    /\ RowBreaks(row)
    /\ result' = [kind |-> "return", radius |-> radius, centers |-> centers,
                  pointy_top |-> pointy_top]
    /\ lpc' = "returned"
    /\ UNCHANGED <<args_vars, dims_vars, row, col, centers, grid>>
    /\ UNCHANGED <<host_vars, exec_vars>>

\* continue: the row lies wholly before the face
RowSkip ==
    /\ lpc = "row"
    /\ ~RowBreaks(row)
    /\ RowSkipped(row)
    /\ row' = row + 1
    /\ UNCHANGED <<args_vars, dims_vars, col, centers, grid, lpc, result>>
    /\ UNCHANGED <<host_vars, exec_vars>>

\* the row is kept: in partial mode the hex left of column 0 first
RowEnter ==
    /\ lpc = "row"
    /\ ~RowBreaks(row)
    /\ ~RowSkipped(row)
    /\ IF allow_partial /\ LeftHexVisible(row)
       THEN /\ centers' = Append(centers, <<LeftHexX(row), RowY(row)>>)
            /\ grid' = Append(grid, <<row, -1>>)
       ELSE UNCHANGED <<centers, grid>>
    /\ col' = 0
    /\ lpc' = "col"
    /\ UNCHANGED <<args_vars, dims_vars, row, result>>
    /\ UNCHANGED <<host_vars, exec_vars>>

\* centers.append((x, y)); col += 1
ColAppend ==
    /\ lpc = "col"
    /\ ~ColStops(row, col)
    /\ centers' = Append(centers, <<ColX(row, col), RowY(row)>>)
    /\ grid' = Append(grid, <<row, col>>)
    /\ col' = col + 1
    /\ UNCHANGED <<args_vars, dims_vars, row, lpc, result>>
    /\ UNCHANGED <<host_vars, exec_vars>>

\* the column loop ends: row += 1
ColBreak ==
    /\ lpc = "col"
    /\ ColStops(row, col)
    /\ row' = row + 1
    /\ lpc' = "row"
    /\ UNCHANGED <<args_vars, dims_vars, col, centers, grid, result>>
    /\ UNCHANGED <<host_vars, exec_vars>>

(***************************************************************************)
(* A direct call of _calculate_hex_layout, as the unit tests make it       *)
(***************************************************************************)
InitLayout ==
    /\ \E f \in Faces : face_width = f[1] /\ face_height = f[2]
    /\ num_x \in NumXs
    /\ margin \in Margins
    /\ pointy_top \in BOOLEAN
    /\ start_from_min_y \in BOOLEAN
    /\ allow_partial \in BOOLEAN
    /\ radius = I(0)
    /\ hex_width = I(0)
    /\ hex_height = I(0)
    /\ row_spacing = I(0)
    /\ col_spacing = I(0)
    /\ row = 0
    /\ col = 0
    /\ centers = <<>>
    /\ grid = <<>>
    /\ lpc = "solve"
    /\ result = NoResult
    /\ sketch_x_length = I(0)
    /\ sketch_y_length = I(0)
    /\ dot = I(0)
    /\ edge_mid_x = I(0)
    /\ edge_mid_y = I(0)
    /\ sketch_center_x = I(0)
    /\ sketch_center_y = I(0)
    /\ epc = "direct"
    /\ face_info = NoFaceInfo
    /\ sketches = 0
    /\ lines = <<>>
    /\ isComputeDeferred = FALSE
    /\ features = {}
    /\ timeline = 0
    /\ timeline_start = 0
    /\ groups = {}
    /\ profile_count = 0
    /\ profiles = <<>>
    /\ hex_profiles = <<>>
    /\ drawn = 0
    /\ messages = <<>>

NextLayout ==
    \/ LayoutRaise
    \/ LayoutSolve
    \/ RowBreak
    \/ RowSkip
    \/ RowEnter
    \/ ColAppend
    \/ ColBreak

SpecLayout == InitLayout /\ [][NextLayout]_vars



(***************************************************************************)
(* _calculate_hex_layout as a function of its arguments, for comparing     *)
(* two calls: the locals of one call as a record, the loops as recursion   *)
(***************************************************************************)
\* the locals computed before the row loop (lines 179-236)
LayoutLocals(fw, fh, n, m, pt, sfm, ap) ==
    LET hw == SolveHexWidth(fw, n, m, pt)
        hh == SolveHexHeight(fw, n, m, pt)
        cs == SolveColSpacing(fw, n, m, pt)
    IN  [radius |-> SolveRadius(fw, n, m, pt),
         row_spacing |-> SolveRowSpacing(fw, n, m, pt),
         col_spacing |-> cs,
         row_x_offset |-> Div(cs, I(2)),
         hex_half_width |-> Div(hw, I(2)),
         hex_half_height |-> Div(hh, I(2)),
         min_x |-> Div(Neg(fw), I(2)),
         max_x |-> Div(fw, I(2)),
         min_y |-> Div(Neg(fh), I(2)),
         max_y |-> Div(fh, I(2)),
         start_x |-> Add(Div(Neg(fw), I(2)), Div(hw, I(2))),
         start_y |-> IF sfm THEN Add(Div(Neg(fh), I(2)), Div(hh, I(2)))
                     ELSE Sub(Div(fh, I(2)), Div(hh, I(2))),
         y_direction |-> IF sfm THEN 1 ELSE -1,
         first_row |-> IF ap THEN -1 ELSE 0,
         num_x |-> n,
         allow_partial |-> ap]

\* y of row r
LocalsRowY(L, r) ==
    Add(L.start_y, Mul(Mul(I(r), L.row_spacing), I(L.y_direction)))

\* x_offset of row r
LocalsXOffset(L, r) == IF Abs(r) % 2 = 1 THEN L.row_x_offset ELSE I(0)

\* x of column c of row r
LocalsColX(L, r, c) ==
    Add(Add(L.start_x, Mul(I(c), L.col_spacing)), LocalsXOffset(L, r))

\* left_hex_x of row r
LocalsLeftHexX(L, r) ==
    Sub(Add(L.start_x, LocalsXOffset(L, r)), L.col_spacing)

\* the row loop's break (lines 243-250, 260-267)
LocalsRowBreaks(L, r) ==
    LET y == LocalsRowY(L, r)
    IN  IF L.allow_partial
        THEN IF L.y_direction > 0
             THEN Gt(Sub(y, L.hex_half_height), Add(L.max_y, Tol))
             ELSE Lt(Add(y, L.hex_half_height), Sub(L.min_y, Tol))
        ELSE IF L.y_direction > 0
             THEN Gt(Add(y, L.hex_half_height), Add(L.max_y, Tol))
             ELSE Lt(Sub(y, L.hex_half_height), Sub(L.min_y, Tol))

\* LocalsRowSkipped with the upward test in both directions
LocalsRowSkippedUp(L, r) ==
    /\ L.allow_partial
    /\ Lt(Add(LocalsRowY(L, r), L.hex_half_height), Sub(L.min_y, Tol))

\* the row loop's continue (lines 251-259)
LocalsRowSkipped(L, r) ==
    LET y == LocalsRowY(L, r)
    IN  /\ L.allow_partial
        /\ IF L.y_direction > 0
           THEN Lt(Add(y, L.hex_half_height), Sub(L.min_y, Tol))
           ELSE Gt(Sub(y, L.hex_half_height), Add(L.max_y, Tol))

\* the left hex is appended (line 275)
LocalsLeftHexVisible(L, r) ==
    Gt(Add(LocalsLeftHexX(L, r), L.hex_half_width), Sub(L.min_x, Tol))

\* LocalsColStops with the trailing-edge test in partial mode too
LocalsColStopsInside(L, r, c) ==
    IF L.allow_partial
    THEN Gt(Add(LocalsColX(L, r, c), L.hex_half_width), Sub(L.max_x, Tol))
    ELSE \/ ~(c < L.num_x)
         \/ Gt(Add(LocalsColX(L, r, c), L.hex_half_width),
               Add(L.max_x, Tol))

\* the column loop ends (lines 282, 291-295)
LocalsColStops(L, r, c) ==
    IF L.allow_partial
    THEN Gt(Sub(LocalsColX(L, r, c), L.hex_half_width), Add(L.max_x, Tol))
    ELSE \/ ~(c < L.num_x)
         \/ Gt(Add(LocalsColX(L, r, c), L.hex_half_width),
               Add(L.max_x, Tol))

\* the column loop of row r from column c on, appending to acc
RECURSIVE LayoutColumns(_, _, _, _)
LayoutColumns(L, r, c, acc) ==
    IF LocalsColStops(L, r, c) THEN acc
    ELSE LayoutColumns(L, r, c + 1,
                       Append(acc, <<LocalsColX(L, r, c), LocalsRowY(L, r)>>))

\* the row loop from row r on, appending to acc
RECURSIVE LayoutRows(_, _, _)
LayoutRows(L, r, acc) ==
    IF LocalsRowBreaks(L, r) THEN acc
    ELSE IF LocalsRowSkipped(L, r) THEN LayoutRows(L, r + 1, acc)
    ELSE LET left == IF L.allow_partial /\ LocalsLeftHexVisible(L, r)
                     THEN Append(acc, <<LocalsLeftHexX(L, r),
                                        LocalsRowY(L, r)>>)
                     ELSE acc
             done == LayoutColumns(L, r, 0, left)
         IN  IF Len(done) >= 0 THEN LayoutRows(L, r + 1, done) ELSE <<>>

\* what the call returns, or the error it raises
CalculateHexLayout(fw, fh, n, m, pt, sfm, ap) ==
    IF MarginTooLarge(fw, n, m, pt)
    THEN [kind |-> "raise", message |-> MarginError(n)]
    ELSE LET L == LayoutLocals(fw, fh, n, m, pt, sfm, ap)
         IN  [kind |-> "return", radius |-> L.radius,
              centers |-> LayoutRows(L, L.first_row, <<>>),
              pointy_top |-> pt]

(***************************************************************************)
(* _calculate_hex_width                                                    *)
(***************************************************************************)
\* CalculateHexWidth returning the radius in the flat-top branch
CalculateHexWidthRadius(fw, n, m, pt) ==
    IF pt
    THEN LET r == Div(Sub(fw, Mul(I(n - 1), m)), I(3 * n - 1))
         IN  IF Le(r, I(0)) THEN I(0) ELSE r
    ELSE LET w == Div(Sub(fw, Mul(I(n - 1), m)), I(n))
         IN  IF Le(w, I(0)) THEN I(0) ELSE w

CalculateHexWidth(fw, n, m, pt) ==
    IF pt
    THEN LET r == Div(Sub(fw, Mul(I(n - 1), m)), I(3 * n - 1))
         IN  IF Le(r, I(0)) THEN I(0) ELSE Mul(I(2), r)
    ELSE LET w == Div(Sub(fw, Mul(I(n - 1), m)), I(n))
         IN  IF Le(w, I(0)) THEN I(0) ELSE w

\* _update_hex_width_display: the text of hexWidthInfo, the width in cm
\* that is formatted as millimetres
HexWidthText(fw, n, m, pt) ==
    LET hw == CalculateHexWidth(fw, n, m, pt)
    IN  IF Le(hw, I(0)) THEN [kind |-> "margin_too_large", cm |-> I(0)]
        ELSE [kind |-> "mm", cm |-> hw]

(***************************************************************************)
(* _get_face_dimensions_from_edge, from the corner distances, the dot      *)
(* product and the points the host's evaluator and transform give          *)
(***************************************************************************)
\* the dot > 0.9 threshold
DotThreshold == Q(9, 10)

\* GetFaceDimensionsFromEdge with edge_on_min_y returned in both branches
GetFaceDimensionsFromEdgeY ==
    LET edge_on_min_y == Lt(edge_mid_y, sketch_center_y)
    IN  IF Gt(dot, DotThreshold)
        THEN [ok |-> TRUE, width |-> sketch_x_length,
              height |-> sketch_y_length, edge_is_along_x |-> TRUE,
              sketch_center_x |-> sketch_center_x,
              sketch_center_y |-> sketch_center_y,
              start_from_min |-> edge_on_min_y]
        ELSE [ok |-> TRUE, width |-> sketch_y_length,
              height |-> sketch_x_length, edge_is_along_x |-> FALSE,
              sketch_center_x |-> sketch_center_x,
              sketch_center_y |-> sketch_center_y,
              start_from_min |-> edge_on_min_y]

GetFaceDimensionsFromEdge ==
    LET edge_on_min_x == Lt(edge_mid_x, sketch_center_x)
        edge_on_min_y == Lt(edge_mid_y, sketch_center_y)
    IN  IF Gt(dot, DotThreshold)
        THEN [ok |-> TRUE, width |-> sketch_x_length,
              height |-> sketch_y_length, edge_is_along_x |-> TRUE,
              sketch_center_x |-> sketch_center_x,
              sketch_center_y |-> sketch_center_y,
              start_from_min |-> edge_on_min_y]
        ELSE [ok |-> TRUE, width |-> sketch_y_length,
              height |-> sketch_x_length, edge_is_along_x |-> FALSE,
              sketch_center_x |-> sketch_center_x,
              sketch_center_y |-> sketch_center_y,
              start_from_min |-> edge_on_min_x]

(***************************************************************************)
(* _execute_hex_pattern: the boundary emitter                              *)
(***************************************************************************)
\* math.cos(k * pi / 6)
Cos30(k) ==
    LET j == k % 12
    IN  CASE j = 0 -> I(1)
          [] j \in {1, 11} -> Div(Sqrt3, I(2))
          [] j \in {2, 10} -> Q(1, 2)
          [] j \in {3, 9} -> I(0)
          [] j \in {4, 8} -> Q(-1, 2)
          [] j \in {5, 7} -> Neg(Div(Sqrt3, I(2)))
          [] j = 6 -> I(-1)

\* math.sin(k * pi / 6)
Sin30(k) == Cos30(k + 9)

\* hex_offsets[i]: angle i*pi/3 under the flag, pi/2 + i*pi/3 without it
HexOffset(i) ==
    LET k == IF pointy_top THEN 2 * i ELSE 3 + 2 * i
    IN  <<Mul(radius, Cos30(k)), Mul(radius, Sin30(k))>>

\* SketchPoint with the x offset added in the swapped frame
SketchPointAdded(along_x, cx, cy, hx, hy) ==
    IF along_x
    THEN <<Add(Add(sketch_center_x, cx), hx),
           Add(Add(sketch_center_y, cy), hy)>>
    ELSE <<Add(Add(sketch_center_x, cy), hy),
           Add(Add(sketch_center_y, cx), hx)>>

\* (x1, y1) of a vertex offset (hx, hy) of the hexagon centered (cx, cy)
SketchPoint(along_x, cx, cy, hx, hy) ==
    IF along_x
    THEN <<Add(Add(sketch_center_x, cx), hx),
           Add(Add(sketch_center_y, cy), hy)>>
    ELSE <<Add(Add(sketch_center_x, cy), hy),
           Sub(Add(sketch_center_y, cx), hx)>>

\* the six addByTwoPoints calls of one center
HexagonLines(along_x, c) ==
    [i \in 1..6 |->
        LET o1 == HexOffset(i - 1)
            o2 == HexOffset(i % 6)
        IN  <<SketchPoint(along_x, c[1], c[2], o1[1], o1[2]),
              SketchPoint(along_x, c[1], c[2], o2[1], o2[2])>>]

(***************************************************************************)
(* _execute_hex_pattern: the region classifier                             *)
(***************************************************************************)
\* expected_area = 3 * math.sqrt(3) / 2 * radius * radius
ExpectedArea == Mul(Mul(Div(Mul(I(3), Sqrt3), I(2)), radius), radius)

\* min_area = expected_area * 0.03
MinArea == Mul(ExpectedArea, Q(3, 100))

\* max_area = expected_area * 1.1
MaxArea == Mul(ExpectedArea, Q(11, 10))

\* AreaAccepted with the lower bound included
AreaAcceptedClosed(area) == Le(MinArea, area) /\ Le(area, MaxArea)

\* min_area < area <= max_area
AreaAccepted(area) == Lt(MinArea, area) /\ Le(area, MaxArea)

\* the areas the host may report, in percent of the expected area
AreaPercents == {3, 5, 110, 111}

\* what profile.areaProperties() gives: an area, or an exception
ProfileReadings ==
    {[ok |-> TRUE, area |-> Mul(Q(k, 100), ExpectedArea)] : k \in AreaPercents}
        \cup {[ok |-> FALSE, area |-> I(0)]}

(***************************************************************************)
(* _execute_hex_pattern: the steps                                         *)
(***************************************************************************)
GENERATED_PREFIX == "hex#"

\* sketch = comp.sketches.add(face), after the timeline marker is read
AddSketch ==
    /\ epc = "start"
    /\ timeline_start' = timeline
    /\ sketches' = sketches + 1
    /\ timeline' = timeline + 1
    /\ epc' = "analyze"
    /\ UNCHANGED <<layout_vars, host_vars, face_info, lines,
                   isComputeDeferred, features, groups, profile_count,
                   profiles, hex_profiles, drawn, messages>>

\* face_info is None: the evaluator gave no range or no corner point
AnalyzeFails ==
    /\ epc = "analyze"
    /\ face_info' = NoFaceInfo
    /\ messages' = Append(messages, [kind |-> "analyze_failed"])
    /\ epc' = "done"
    /\ UNCHANGED <<layout_vars, host_vars, design_vars, profile_count,
                   profiles, hex_profiles, drawn>>

\* face_info unpacked, _calculate_hex_layout called
Analyze ==
    /\ epc = "analyze"
    /\ face_info' = GetFaceDimensionsFromEdge
    /\ face_width' = face_info'.width
    /\ face_height' = face_info'.height
    /\ start_from_min_y' = face_info'.start_from_min
    /\ lpc' = "solve"
    /\ epc' = "layout"
    /\ UNCHANGED <<num_x, margin, pointy_top, allow_partial, dims_vars, row,
                   col, centers, grid, result, host_vars, design_vars,
                   profile_count, profiles, hex_profiles, drawn, messages>>

\* except RuntimeError as e: messageBox, return
LayoutFailed ==
    /\ epc = "layout"
    /\ lpc = "raised"
    /\ messages' = Append(messages, [kind |-> "margin_error",
                                     error |-> result.message])
    /\ epc' = "done"
    /\ UNCHANGED <<layout_vars, host_vars, face_info, design_vars,
                   profile_count, profiles, hex_profiles, drawn>>

\* len(centers) == 0: messageBox, return
NoHexagons ==
    /\ epc = "layout"
    /\ lpc = "returned"
    /\ Len(result.centers) = 0
    /\ messages' = Append(messages, [kind |-> "no_hexagons"])
    /\ epc' = "done"
    /\ UNCHANGED <<layout_vars, host_vars, face_info, design_vars,
                   profile_count, profiles, hex_profiles, drawn>>

\* BeginDraw without the test of len(centers)
BeginDrawAlways ==
    /\ epc = "layout"
    /\ lpc = "returned"
    /\ isComputeDeferred' = TRUE
    /\ drawn' = 0
    /\ epc' = "draw"
    /\ UNCHANGED <<layout_vars, host_vars, face_info, sketches, lines,
                   features, timeline, timeline_start, groups,
                   profile_count, profiles, hex_profiles, messages>>

\* sketch.isComputeDeferred = True, hex_offsets computed
BeginDraw ==
    /\ epc = "layout"
    /\ lpc = "returned"
    /\ Len(result.centers) > 0
    /\ isComputeDeferred' = TRUE
    /\ drawn' = 0
    /\ epc' = "draw"
    /\ UNCHANGED <<layout_vars, host_vars, face_info, sketches, lines,
                   features, timeline, timeline_start, groups,
                   profile_count, profiles, hex_profiles, messages>>

\* one pass of "for cx, cy in centers": six lines
DrawHexagon ==
    /\ epc = "draw"
    /\ drawn < Len(centers)
    /\ lines' = lines \o HexagonLines(face_info.edge_is_along_x,
                                      centers[drawn + 1])
    /\ drawn' = drawn + 1
    /\ UNCHANGED <<layout_vars, host_vars, epc, face_info, sketches,
                   isComputeDeferred, features, timeline, timeline_start,
                   groups, profile_count, profiles, hex_profiles, messages>>

\* sketch.isComputeDeferred = False; the host computes the profiles
ComputeProfiles ==
    /\ epc = "draw"
    /\ drawn = Len(centers)
    /\ isComputeDeferred' = FALSE
    /\ profile_count' \in 0..MaxProfiles
    /\ profiles' = <<>>
    /\ hex_profiles' = <<>>
    /\ epc' = "classify"
    /\ UNCHANGED <<layout_vars, host_vars, face_info, sketches, lines,
                   features, timeline, timeline_start, groups, drawn,
                   messages>>

\* one pass of "for i in range(profiles.count)"
ClassifyProfile ==
    /\ epc = "classify"
    /\ Len(profiles) < profile_count
    /\ \E p \in ProfileReadings :
          /\ profiles' = Append(profiles, p)
          /\ hex_profiles' =
                IF p.ok /\ AreaAccepted(p.area)
                THEN Append(hex_profiles, Len(profiles) + 1)
                ELSE hex_profiles
    /\ UNCHANGED <<layout_vars, host_vars, epc, face_info, design_vars,
                   profile_count, drawn, messages>>

\* hex_profiles.count == 0: messageBox, return
NoProfiles ==
    /\ epc = "classify"
    /\ Len(profiles) = profile_count
    /\ Len(hex_profiles) = 0
    /\ messages' = Append(messages, [kind |-> "no_profiles",
                                     drew |-> Len(centers)])
    /\ epc' = "done"
    /\ UNCHANGED <<layout_vars, host_vars, face_info, design_vars,
                   profile_count, profiles, hex_profiles, drawn>>

\* extrudes.add succeeds: the cut, the timeline group, the report
Cut ==
    /\ epc = "classify"
    /\ Len(profiles) = profile_count
    /\ Len(hex_profiles) > 0
    /\ features' = features \cup {<<GENERATED_PREFIX, "cut">>}
    /\ timeline' = timeline + 1
    /\ \/ groups' = IF timeline' - timeline_start >= 2
                    THEN groups \cup {<<timeline_start, timeline' - 1>>}
                    ELSE groups
       \/ groups' = groups
    /\ messages' = Append(messages,
          [kind |-> "created", count |-> Len(hex_profiles),
           hex_width |-> CalculateHexWidth(face_width, num_x, margin,
                                           pointy_top)])
    /\ epc' = "done"
    /\ UNCHANGED <<layout_vars, host_vars, face_info, sketches, lines,
                   isComputeDeferred, timeline_start, profile_count,
                   profiles, hex_profiles, drawn>>

\* extrudes.add raises: messageBox, return
CutFails ==
    /\ epc = "classify"
    /\ Len(profiles) = profile_count
    /\ Len(hex_profiles) > 0
    /\ messages' = Append(messages, [kind |-> "cut_failed"])
    /\ epc' = "done"
    /\ UNCHANGED <<layout_vars, host_vars, face_info, design_vars,
                   profile_count, profiles, hex_profiles, drawn>>

(***************************************************************************)
(* The dialog's execute handler calls _execute_hex_pattern on a            *)
(* rectangular face whose selected edge runs along sketch X or sketch Y    *)
(***************************************************************************)
\* <<extent along sketch X, extent along sketch Y>>
ExecFaces == { <<Q(10, 1), Q(3, 1)>>, <<Q(3, 1), Q(3, 1)>> }

\* the face center in sketch coordinates
ExecCenters == { <<I(0), I(0)>>, <<I(1), I(-2)>> }

ExecMargins == { Q(0, 1), Q(4, 1) }

Init ==
    /\ \E f \in ExecFaces, c \in ExecCenters, along_x \in BOOLEAN,
          on_min \in BOOLEAN :
          LET side == IF on_min THEN I(-1) ELSE I(1)
          IN  /\ sketch_x_length = f[1]
              /\ sketch_y_length = f[2]
              /\ sketch_center_x = c[1]
              /\ sketch_center_y = c[2]
              /\ dot = IF along_x THEN I(1) ELSE I(0)
              /\ edge_mid_x = IF along_x THEN c[1]
                              ELSE Add(c[1], Mul(side, Div(f[1], I(2))))
              /\ edge_mid_y = IF along_x
                              THEN Add(c[2], Mul(side, Div(f[2], I(2))))
                              ELSE c[2]
    /\ num_x \in 1..MaxNumX
    /\ margin \in ExecMargins
    /\ pointy_top \in BOOLEAN
    /\ allow_partial \in BOOLEAN
    /\ face_width = I(0)
    /\ face_height = I(0)
    /\ start_from_min_y = FALSE
    /\ radius = I(0)
    /\ hex_width = I(0)
    /\ hex_height = I(0)
    /\ row_spacing = I(0)
    /\ col_spacing = I(0)
    /\ row = 0
    /\ col = 0
    /\ centers = <<>>
    /\ grid = <<>>
    /\ lpc = "idle"
    /\ result = NoResult
    /\ epc = "start"
    /\ face_info = NoFaceInfo
    /\ sketches = 0
    /\ lines = <<>>
    /\ isComputeDeferred = FALSE
    /\ features = {}
    /\ timeline = 0
    /\ timeline_start = 0
    /\ groups = {}
    /\ profile_count = 0
    /\ profiles = <<>>
    /\ hex_profiles = <<>>
    /\ drawn = 0
    /\ messages = <<>>

Next ==
    \/ AddSketch
    \/ AnalyzeFails
    \/ Analyze
    \/ LayoutRaise
    \/ LayoutSolve
    \/ RowBreak
    \/ RowSkip
    \/ RowEnter
    \/ ColAppend
    \/ ColBreak
    \/ LayoutFailed
    \/ NoHexagons
    \/ BeginDraw
    \/ DrawHexagon
    \/ ComputeProfiles
    \/ ClassifyProfile
    \/ NoProfiles
    \/ Cut
    \/ CutFails

Spec == Init /\ [][Next]_vars

(***************************************************************************)
(* Properties                                                              *)
(***************************************************************************)
\* the dimension solver has run and has not raised
Solved == lpc \in {"row", "col", "returned"}

\* the indices of the returned centers that lie in row 0 (y = start_y)
FirstRow == {i \in 1..Len(result.centers) : result.centers[i][2] = start_y}

\* C1: the layout raises the "margin too large" error, whose message
\* carries the attempted num_x, exactly when
\* face_width - (num_x - 1) * margin <= 0, and then returns neither a radius
\* nor centers; in every other case the radius is strictly positive.
C1_MarginErrorExactly ==
    LET fit == Sub(face_width, Mul(I(num_x - 1), margin))
    IN  /\ lpc = "raised" =>
              /\ Le(fit, I(0))
              /\ result.kind = "raise"
              /\ result.message = MarginError(num_x)
              /\ result.message.num_x = num_x
              /\ centers = <<>>
        /\ Solved => Gt(fit, I(0)) /\ Gt(radius, I(0))
        /\ lpc = "returned" =>
              result.kind = "return" /\ Gt(result.radius, I(0))

\* C1 witness: the call of the unit test, face_width 1, num_x 10,
\* margin 1, has raised.
C1_Witness ==
    /\ lpc = "raised"
    /\ face_width = I(1)
    /\ num_x = 10
    /\ margin = I(1)

\* C2: in full-hex mode, when the face is at least one hexagon high, the
\* first row of the returned centers holds exactly num_x centers.
C2_FirstRowFull ==
    (lpc = "returned" /\ ~allow_partial /\ Ge(face_height, hex_height))
        => Cardinality(FirstRow) = num_x

\* C2 witness: the unit test's face (10 by 3, five flat-top hexagons)
\* has returned a first row.
C2_Witness ==
    /\ lpc = "returned"
    /\ ~allow_partial
    /\ Ge(face_height, hex_height)
    /\ face_width = I(10)
    /\ face_height = I(3)
    /\ num_x = 5
    /\ pointy_top
    /\ Cardinality(FirstRow) = 5

\* C3: in the pointy-top branch num_x hexagon widths and num_x - 1 margins
\* add up to the face width; with margin 0 the hexagons alone span it.
C3_PointySpan ==
    (Solved /\ ~pointy_top) =>
        /\ Add(Mul(I(num_x), hex_width), Mul(I(num_x - 1), margin))
              = face_width
        /\ margin = I(0) => Mul(I(num_x), hex_width) = face_width

\* C3 witness: five pointy-top hexagons of width 2 on a face 10 wide.
C3_Witness ==
    /\ lpc = "returned"
    /\ ~pointy_top
    /\ margin = I(0)
    /\ face_width = I(10)
    /\ num_x = 5
    /\ hex_width = I(2)

\* C4: in the flat-top branch radius * (3 * num_x - 1) and num_x - 1
\* margins add up to the face width and hex_width is twice the radius;
\* margin 0, num_x 5, face_width 10 give radius 10/14, hex_width 20/14.
C4_FlatRadius ==
    (Solved /\ pointy_top) =>
        /\ Add(Mul(radius, I(3 * num_x - 1)), Mul(I(num_x - 1), margin))
              = face_width
        /\ hex_width = Mul(I(2), radius)
        /\ (margin = I(0) /\ num_x = 5 /\ face_width = I(10)) =>
              radius = Q(10, 14) /\ hex_width = Q(20, 14)

\* C4 witness: the unit test's flat-top layout has returned.
C4_Witness ==
    /\ lpc = "returned"
    /\ pointy_top
    /\ margin = I(0)
    /\ num_x = 5
    /\ face_width = I(10)
    /\ result.radius = Q(5, 7)

C6_Original ==
    (lpc = "returned" /\ Gt(margin, I(0))) =>
        Lt(result.radius, SolveRadius(face_width, num_x, I(0), pointy_top))

\* C6 amended: for num_x >= 2 a positive margin with which the layout
\* succeeds gives a radius strictly below the radius of margin 0; for
\* num_x = 1 the radius does not depend on the margin.
C6_MarginShrinksRadius ==
    (lpc = "returned" /\ Gt(margin, I(0))) =>
        /\ num_x >= 2 =>
              Lt(result.radius,
                 SolveRadius(face_width, num_x, I(0), pointy_top))
        /\ num_x = 1 =>
              result.radius
                 = SolveRadius(face_width, num_x, I(0), pointy_top)

\* C6 witness: a layout of at least two hexagons with a positive margin
\* has returned.
C6_Witness ==
    /\ lpc = "returned"
    /\ Gt(margin, I(0))
    /\ num_x >= 2
    /\ Len(result.centers) > 0

\* the scenario of C8: face 10 by 10, five pointy-top hexagons, margin 0,
\* rows from the minimum side, full hexagons only
C8_Scenario ==
    /\ lpc = "returned"
    /\ face_width = I(10)
    /\ face_height = I(10)
    /\ num_x = 5
    /\ margin = I(0)
    /\ ~pointy_top
    /\ start_from_min_y
    /\ ~allow_partial

\* C8 as stated: the scenario returns radius 1, first-row centers at
\* y = -5 + 1 and exactly 5 centers in row 0.
C8_Original ==
    C8_Scenario =>
        /\ result.radius = I(1)
        /\ Cardinality(FirstRow) = 5
        /\ \A i \in FirstRow : result.centers[i][2] = Add(I(-5), I(1))

\* C8 amended: the scenario returns radius 2 / sqrt(3) (hex_width 2),
\* first-row centers at y = -5 + radius and exactly 5 centers in row 0.
C8_ScenarioResult ==
    C8_Scenario =>
        /\ result.radius = Div(I(2), Sqrt3)
        /\ hex_width = I(2)
        /\ Cardinality(FirstRow) = 5
        /\ \A i \in 1..5 :
              result.centers[i][2] = Add(I(-5), result.radius)
        /\ \A i \in 6..Len(result.centers) :
              result.centers[i][2] # Add(I(-5), result.radius)

\* C8 witness: the scenario has returned.
C8_Witness == C8_Scenario /\ Len(result.centers) >= 5

(***************************************************************************)
(* Properties of _execute_hex_pattern                                      *)
(***************************************************************************)
\* a sketch point relative to the frame origin
Rel(p) == <<Sub(p[1], sketch_center_x), Sub(p[2], sketch_center_y)>>

\* the quarter turn (x, y) -> (y, -x)
Rot(v) == <<v[2], Neg(v[1])>>

\* the center and the two vertex offsets of the j-th line drawn
LineCenter(j) == centers[((j - 1) \div 6) + 1]
LineOffset(j, e) == HexOffset((((j - 1) % 6) + (e - 1)) % 6)

\* the endpoint the aligned frame emits for it, relative to the origin
AlignedRel(j, e) ==
    Rel(SketchPoint(TRUE, LineCenter(j)[1], LineCenter(j)[2],
                    LineOffset(j, e)[1], LineOffset(j, e)[2]))

\* every hexagon has been drawn, in the frame whose width axis is sketch Y
SwappedDrawing ==
    /\ epc = "draw"
    /\ drawn = Len(centers)
    /\ Len(lines) = 6 * Len(centers)
    /\ ~face_info.edge_is_along_x

\* C7 as stated: every endpoint emitted in the swapped frame is the
\* quarter turn (x, y) -> (y, -x) of the endpoint the aligned frame emits,
\* both relative to the frame origin, for every center.
C7_Original ==
    SwappedDrawing =>
        \A j \in 1..Len(lines) : \A e \in 1..2 :
            Rel(lines[j][e]) = Rot(AlignedRel(j, e))

\* C7 amended: in the swapped frame the hexagon center (cx, cy) is
\* transposed to (cy, cx) and the vertex offset from the center is turned
\* by (x, y) -> (y, -x); the endpoint equals the quarter turn of the aligned
\* endpoint exactly when cx = 0.
C7_SwappedFrame ==
    SwappedDrawing =>
        \A j \in 1..Len(lines) : \A e \in 1..2 :
            LET c == LineCenter(j)
                a == AlignedRel(j, e)
                t == Rot(<<Sub(a[1], c[1]), Sub(a[2], c[2])>>)
            IN  /\ Rel(lines[j][e]) = <<Add(c[2], t[1]), Add(c[1], t[2])>>
                /\ (Rel(lines[j][e]) = Rot(a)) <=> (c[1] = I(0))

\* C7 witness: hexagons whose first center has cx # 0 have been drawn in
\* the swapped frame, away from the sketch origin.
C7_Witness ==
    /\ SwappedDrawing
    /\ Len(lines) >= 6
    /\ centers[1][1] # I(0)
    /\ sketch_center_x # I(0)

\* the full hexagon's area (3 * sqrt(3) / 2) * radius^2
FullHexArea == Mul(Div(Mul(I(3), Sqrt3), I(2)), Mul(radius, radius))

\* profile i was added to hex_profiles
Accepted(i) == \E k \in 1..Len(hex_profiles) : hex_profiles[k] = i

\* the closed regions have been or are being classified
Classifying == epc = "classify" \/ (epc = "done" /\ profile_count > 0)

\* C9 as stated: a region is accepted exactly when its area lies in
\* (0.03 * expected, 1.1 * expected] with partial hexagons allowed and in
\* (0.1 * expected, 1.1 * expected] in full-hex-only mode.
C9_Original ==
    Classifying =>
        \A i \in 1..Len(profiles) :
            profiles[i].ok =>
                (Accepted(i) <=>
                    /\ Gt(profiles[i].area,
                          Mul(IF allow_partial THEN Q(3, 100) ELSE Q(1, 10),
                              FullHexArea))
                    /\ Le(profiles[i].area, Mul(Q(11, 10), FullHexArea)))

\* C9 amended: in both modes a region is accepted exactly when its area
\* was read and lies in (0.03 * expected, 1.1 * expected]; in
\* full-hex-only mode a region between 3% and 10% of expected is accepted.
C9_AreaWindow ==
    Classifying =>
        \A i \in 1..Len(profiles) :
            Accepted(i) <=>
                /\ profiles[i].ok
                /\ Gt(profiles[i].area, Mul(Q(3, 100), FullHexArea))
                /\ Le(profiles[i].area, Mul(Q(11, 10), FullHexArea))

\* C9 witness: in full-hex-only mode a region of 5% of the expected area
\* has been accepted.
C9_Witness ==
    /\ Classifying
    /\ ~allow_partial
    /\ \E i \in 1..Len(profiles) :
          /\ Accepted(i)
          /\ profiles[i].area = Mul(Q(5, 100), FullHexArea)

\* _execute_hex_pattern has ended in one of the three recoverable errors
RecoverableError ==
    /\ epc = "done"
    /\ Len(messages) > 0
    /\ messages[Len(messages)].kind
          \in {"margin_error", "no_hexagons", "no_profiles"}

\* C10: when the operation ends in a recoverable error the design is as
\* before it started: no sketch and no lines of the operation remain and
\* no cut exists.
C10_NoSideEffects ==
    RecoverableError =>
        /\ sketches = 0
        /\ lines = <<>>
        /\ features = {}

\* extrudes.add has been called: it succeeded or it raised
CutAttempted ==
    \E i \in 1..Len(messages) : messages[i].kind \in {"created", "cut_failed"}

\* the layout returned an empty list of centers
LayoutEmpty == lpc = "returned" /\ Len(result.centers) = 0

\* the classifier went through every region and accepted none
ClassifiedNone ==
    /\ lpc = "returned"
    /\ Len(result.centers) > 0
    /\ epc = "done"
    /\ hex_profiles = <<>>

\* C11: the cut is attempted only after the layout returned at least one
\* center, six segments of every center were emitted and the classifier
\* accepted at least one region; when the layout returns no center or the
\* classifier accepts no region the operation ends with exactly one
\* message, a failure message, and without a cut attempt.
C11_CutOnlyAfterAcceptance ==
    /\ CutAttempted =>
          /\ lpc = "returned"
          /\ Len(result.centers) > 0
          /\ drawn = Len(result.centers)
          /\ Len(lines) = 6 * Len(result.centers)
          /\ Len(profiles) = profile_count
          /\ Len(hex_profiles) > 0
    /\ features # {} => CutAttempted
    /\ (epc = "done" /\ LayoutEmpty) =>
          /\ Len(messages) = 1
          /\ messages[1].kind = "no_hexagons"
          /\ lines = <<>>
          /\ features = {}
    /\ ClassifiedNone =>
          /\ Len(messages) = 1
          /\ messages[1].kind = "no_profiles"
          /\ messages[1].drew = Len(result.centers)
          /\ features = {}
    /\ (LayoutEmpty /\ epc # "layout") => epc = "done"

C11_Witness ==
    /\ CutAttempted
    /\ features # {}
    /\ Len(result.centers) >= 2
    /\ Len(lines) = 6 * Len(result.centers)
    /\ Len(hex_profiles) < Len(profiles)

\* the layout returned; centers and grid are the returned list
Returned == lpc = "returned"

\* the index in centers at which a new row starts (the row before it ends)
RowStarts == {i \in 2..Len(centers) : grid[i][1] # grid[i - 1][1]}

\* C12 as stated: flat-top (the flag set), margin 0, start_from_min_y: the
\* second returned row lies 0.5 * hex_height above the first, and
\* consecutive returned rows differ in y by row_spacing * y_direction.
C12_Original ==
    Returned =>
        \A i \in RowStarts :
            /\ Sub(centers[i][2], centers[i - 1][2])
                  = Mul(row_spacing, I(y_direction))
            /\ (pointy_top /\ margin = I(0) /\ start_from_min_y
                    /\ centers[i - 1][2] = centers[1][2])
                  => Sub(centers[i][2], centers[1][2])
                        = Mul(Q(1, 2), hex_height)

\* an odd row appends no center: with num_x = 1 its column 0 is shifted by
\* row_x_offset past the far side (full-hex mode: its trailing edge,
\* partial mode: its near edge, and then the left hex is out of sight too)
OddRowsEmpty ==
    /\ num_x = 1
    /\ IF allow_partial THEN Gt(row_x_offset, Add(face_width, Tol))
       ELSE Gt(row_x_offset, Tol)

\* the rows of the loop from one returned row to the next
RowStride == IF OddRowsEmpty THEN 2 ELSE 1

\* C12 (amended): consecutive returned rows are RowStride rows of the loop
\* apart and differ in y by RowStride * row_spacing * y_direction.
\* RowStride is 1 whenever num_x >= 2; with num_x = 1 the odd rows are
\* empty and RowStride is 2 in full-hex mode when col_spacing / 2 > 0.001
\* and in partial mode when col_spacing / 2 > face_width + 0.001.  For
\* flat-top (the flag set) and margin 0 the difference is therefore
\* RowStride * 0.5 * hex_height with hex_height = sqrt(3) * radius: 0.5 *
\* hex_height in partial mode, for num_x >= 2 and for faces so narrow that
\* 0.75 * face_width <= 0.001; hex_height for num_x = 1 in full-hex mode
\* otherwise.
C12_RowPitch ==
    Returned =>
        \A i \in RowStarts :
            /\ grid[i][1] - grid[i - 1][1] = RowStride
            /\ Sub(centers[i][2], centers[i - 1][2])
                  = Mul(Mul(I(RowStride), row_spacing), I(y_direction))
            /\ num_x >= 2 => RowStride = 1
            /\ (pointy_top /\ margin = I(0))
                  => /\ hex_height = Mul(Sqrt3, radius)
                     /\ RowStride =
                           IF \/ allow_partial
                              \/ num_x >= 2
                              \/ Le(Mul(Q(3, 4), face_width), Tol)
                           THEN 1 ELSE 2
                     /\ Sub(centers[i][2], centers[i - 1][2])
                           = Mul(Mul(Q(RowStride, 2), hex_height),
                                 I(y_direction))

C12_Witness ==
    /\ Returned
    /\ pointy_top
    /\ margin = I(0)
    /\ start_from_min_y
    /\ ~allow_partial
    /\ num_x = 1
    /\ RowStarts # {}
    /\ Sub(centers[Len(centers)][2], centers[1][2]) = Mul(I(2), hex_height)

\* the rows of the loop that appended a center
RowsOf == {grid[i][1] : i \in 1..Len(grid)}

\* the indices of the centers of row r
RowCenters(r) == {i \in 1..Len(grid) : grid[i][1] = r}

\* C13: in full-hex mode the extent of every center's hexagon lies inside
\* the face up to the 0.001 tolerance: min_x <= x - hex_width/2,
\* x + hex_width/2 <= max_x + 0.001, min_y - 0.001 <= y - hex_height/2 and
\* y + hex_height/2 <= max_y + 0.001; no row before row 0, no column
\* before column 0 or past num_x - 1 is emitted, and no row has more than
\* num_x centers.
C13_FullHexInside ==
    (Returned /\ ~allow_partial) =>
        /\ \A i \in 1..Len(centers) :
              LET x == centers[i][1]
                  y == centers[i][2]
              IN  /\ Le(min_x, Sub(x, hex_half_width))
                  /\ Le(Add(x, hex_half_width), Add(max_x, Tol))
                  /\ Le(Sub(min_y, Tol), Sub(y, hex_half_height))
                  /\ Le(Add(y, hex_half_height), Add(max_y, Tol))
                  /\ grid[i][1] >= 0
                  /\ grid[i][2] \in 0..(num_x - 1)
        /\ \A r \in RowsOf : Cardinality(RowCenters(r)) <= num_x

C13_Witness ==
    /\ Returned
    /\ ~allow_partial
    /\ Cardinality(RowsOf) >= 2
    /\ \E r \in RowsOf : Cardinality(RowCenters(r)) = num_x /\ num_x >= 2
    /\ \E i \in 1..Len(centers) :
          Add(centers[i][1], hex_half_width) = max_x
    /\ \E i \in 1..Len(centers) :
          /\ Gt(Add(centers[i][2], hex_half_height), Sub(max_y, Tol))
          /\ ~start_from_min_y

\* C14: in partial mode the extent of every center's hexagon,
\* [x - hex_width/2, x + hex_width/2] x [y - hex_height/2, y + hex_height/2],
\* meets the face rectangle in a region of positive area: none lies
\* outside the face or only touches its boundary.
C14_PartialOverlaps ==
    (Returned /\ allow_partial) =>
        \A i \in 1..Len(centers) :
            LET x == centers[i][1]
                y == centers[i][2]
            IN  /\ Lt(Sub(x, hex_half_width), max_x)
                /\ Gt(Add(x, hex_half_width), min_x)
                /\ Lt(Sub(y, hex_half_height), max_y)
                /\ Gt(Add(y, hex_half_height), min_y)

\* C15: the returned list is row-major and ordered.  Of two neighbours in
\* the list either both lie in one row (same y) and the second is exactly
\* col_spacing > 0 to the right of the first, the left extra hex coming
\* before column 0; or the second starts the next row, whose y is strictly
\* greater (start_from_min_y) or strictly smaller (otherwise).  Hence y is
\* monotonic along the list, the centers of a row are contiguous, x is
\* strictly increasing within a row, and no center appears twice.
C15_RowMajorOrder ==
    Returned =>
        /\ Gt(col_spacing, I(0))
        /\ Len(centers) > 0 =>
              grid[1][2] = (IF allow_partial /\ LeftHexVisible(grid[1][1])
                            THEN -1 ELSE 0)
        /\ \A i \in 1..(Len(centers) - 1) :
              LET p == centers[i]
                  q == centers[i + 1]
              IN  IF q[2] = p[2]
                  THEN /\ Sub(q[1], p[1]) = col_spacing
                       /\ grid[i + 1] = <<grid[i][1], grid[i][2] + 1>>
                  ELSE /\ IF start_from_min_y THEN Gt(q[2], p[2])
                          ELSE Lt(q[2], p[2])
                       /\ grid[i + 1][1] > grid[i][1]
                       /\ grid[i + 1][2] =
                             (IF allow_partial
                                    /\ LeftHexVisible(grid[i + 1][1])
                              THEN -1 ELSE 0)

C15_Witness ==
    /\ Returned
    /\ allow_partial
    /\ ~start_from_min_y
    /\ Cardinality(RowsOf) >= 3
    /\ \E i \in 1..(Len(centers) - 2) :
          /\ grid[i][2] = -1
          /\ grid[i + 2] = <<grid[i][1], 1>>
          /\ Sub(centers[i + 2][1], centers[i][1])
                = Mul(I(2), col_spacing)

\* every center has its six lines in the sketch
DrawingComplete ==
    epc = "draw" /\ drawn = Len(centers) /\ Len(lines) = 6 * Len(centers)

\* the sketch coordinate that runs along the face's height: 2 (sketch Y)
\* when the edge is along sketch X, 1 (sketch X) otherwise
HeightAxis == IF face_info.edge_is_along_x THEN 2 ELSE 1

\* the selected edge's midpoint and the face center along the height axis
EdgeSide == IF face_info.edge_is_along_x THEN edge_mid_y ELSE edge_mid_x
CenterSide ==
    IF face_info.edge_is_along_x THEN sketch_center_y ELSE sketch_center_x

\* how far inside the face, seen from the selected edge, a coordinate lies
FromEdge(v) ==
    IF Lt(EdgeSide, CenterSide) THEN Sub(v, EdgeSide) ELSE Sub(EdgeSide, v)

\* the height-axis coordinates of the twelve endpoints of hexagon c's lines
HexagonSpan(c) ==
    {lines[6 * (c - 1) + i][e][HeightAxis] : i \in 1..6, e \in 1..2}

\* C16: in full-hex mode, for an edge along sketch X or along sketch Y and
\* on either side of the face, start_from_min is true exactly when the
\* edge midpoint is below the face center along the height axis, the drawn
\* hexagons of row 0 touch the selected edge's side of the face and none
\* crosses it, and the hexagons of row k lie k * row_spacing farther from
\* that edge.
C16_FirstRowAtEdge ==
    (DrawingComplete /\ ~allow_partial) =>
        /\ face_info.edge_is_along_x = Gt(dot, DotThreshold)
        /\ start_from_min_y = Lt(EdgeSide, CenterSide)
        /\ \A c \in 1..Len(centers) :
              /\ \A v \in HexagonSpan(c) :
                    Ge(FromEdge(v), Mul(I(grid[c][1]), row_spacing))
              /\ \E v \in HexagonSpan(c) :
                    FromEdge(v) = Mul(I(grid[c][1]), row_spacing)
        /\ \E c \in 1..Len(centers) : grid[c][1] = 0
        /\ Gt(row_spacing, I(0))

C16_Witness ==
    /\ DrawingComplete
    /\ ~allow_partial
    /\ ~face_info.edge_is_along_x
    /\ ~start_from_min_y
    /\ sketch_center_x # I(0)
    /\ \E c \in 1..Len(centers) :
          /\ grid[c][1] = 1
          /\ \E v \in HexagonSpan(c) : FromEdge(v) = row_spacing

\* _calculate_hex_layout has returned or raised
LayoutEnded == lpc \in {"returned", "raised"}

\* before the loops, in the loops, after them
Phase ==
    CASE lpc = "solve" -> 0
      [] lpc \in {"row", "col"} -> 1
      [] OTHER -> 2

\* a step leaves the loops behind, or starts a later row, or enters the
\* column loop of the row, or moves to a later column of it
Advances ==
    \/ Phase' > Phase
    \/ Phase' = Phase /\ row' > row
    \/ Phase' = Phase /\ row' = row /\ lpc = "row" /\ lpc' = "col"
    \/ Phase' = Phase /\ row' = row /\ lpc = "col" /\ lpc' = "col"
          /\ col' > col

\* what the inputs allow the loop counters to reach: the spacings are
\* positive, (row - 1) * row_spacing <= face_height + 0.001, and in the
\* column loop (col - 1) * col_spacing <= face_width + 0.001 (partial mode)
\* or col <= num_x (full-hex mode)
LoopBounds ==
    lpc \in {"row", "col"} =>
        /\ Gt(row_spacing, I(0))
        /\ Gt(col_spacing, I(0))
        /\ row >= first_row
        /\ Le(Mul(I(row - 1), row_spacing), Add(face_height, Tol))
        /\ lpc = "col" =>
              /\ col >= 0
              /\ IF allow_partial
                 THEN Le(Mul(I(col - 1), col_spacing), Add(face_width, Tol))
                 ELSE col <= num_x

\* C17: every call of _calculate_hex_layout ends.  Every step of the call
\* advances it (out of the loops, to a later row, into the row's column
\* loop or to a later column) while the counters stay within bounds fixed
\* by the inputs, so the row loop and the column loops exit after finitely
\* many passes; the call then has returned its list of centers or raised
\* the margin error.
C17_LayoutTerminates ==
    /\ []LoopBounds
    /\ [][Advances]_vars
    /\ [](LayoutEnded => result.kind \in {"return", "raise"})
    /\ [](result.kind = "return" => result.centers = centers)

C17_Witness ==
    /\ Returned
    /\ allow_partial
    /\ Cardinality(RowsOf) >= 3
    /\ \E i \in 1..Len(grid) : grid[i][2] >= num_x
    /\ row >= first_row + Cardinality(RowsOf)

\* C18: in full-hex mode with col_spacing / 2 > 0.001, of the rows the loop
\* went through before it returned every even row has exactly num_x
\* centers and every odd row exactly num_x - 1 (none when num_x = 1), under
\* either value of the orientation flag.
C18_RowCounts ==
    (Returned /\ ~allow_partial /\ Gt(row_x_offset, Tol)) =>
        \A r \in 0..(row - 1) :
            Cardinality(RowCenters(r))
                = (IF r % 2 = 0 THEN num_x ELSE num_x - 1)

C18_Witness ==
    /\ Returned
    /\ ~allow_partial
    /\ Gt(row_x_offset, Tol)
    /\ ~pointy_top
    /\ num_x = 1
    /\ row >= 3
    /\ RowCenters(1) = {}
    /\ Cardinality(RowCenters(2)) = 1

\* the call with the same arguments except start_from_min_y = b
CallFrom(b) ==
    CalculateHexLayout(face_width, face_height, num_x, margin, pointy_top,
                       b, allow_partial)

\* (x, y) -> (x, -y) on every element of a list of centers
Mirror(cs) == [i \in 1..Len(cs) |-> <<cs[i][1], Neg(cs[i][2])>>]

\* C19: for the same face, num_x, margin, orientation flag and
\* allow_partial, the list returned with start_from_min_y = FALSE is the
\* list returned with start_from_min_y = TRUE mirrored by (x, y) -> (x, -y),
\* element by element; one call raises exactly when the other does; and
\* the call that ended is the one the function of its arguments gives.
C19_MirroredStart ==
    LayoutEnded =>
        LET from_min == CallFrom(TRUE)
            from_max == CallFrom(FALSE)
        IN  /\ result = (IF start_from_min_y THEN from_min ELSE from_max)
            /\ from_min.kind = from_max.kind
            /\ Returned => from_max.centers = Mirror(from_min.centers)

C19_Witness ==
    /\ Returned
    /\ ~start_from_min_y
    /\ allow_partial
    /\ Len(centers) >= 6
    /\ Cardinality(RowsOf) >= 3
    /\ centers = Mirror(CallFrom(TRUE).centers)
    /\ centers # CallFrom(TRUE).centers

\* the call with the same arguments except allow_partial = TRUE
CallPartial ==
    CalculateHexLayout(face_width, face_height, num_x, margin, pointy_top,
                       start_from_min_y, TRUE)

\* the centers of a list, as a set
CenterSet(cs) == {cs[i] : i \in 1..Len(cs)}

\* C20: for the same face, num_x, margin, orientation flag and
\* start_from_min_y, every center returned in full-hex mode is returned in
\* partial mode too, with the same radius (and the same orientation flag);
\* one mode raises exactly when the other does.
C20_PartialAddsOnly ==
    (LayoutEnded /\ ~allow_partial) =>
        LET partial == CallPartial
        IN  /\ partial.kind = result.kind
            /\ Returned =>
                  /\ partial.radius = result.radius
                  /\ partial.pointy_top = result.pointy_top
                  /\ CenterSet(result.centers) \subseteq
                        CenterSet(partial.centers)

C20_Witness ==
    /\ Returned
    /\ ~allow_partial
    /\ Len(centers) >= 4
    /\ CenterSet(centers) \subseteq CenterSet(CallPartial.centers)
    /\ Len(CallPartial.centers) > Len(centers) + 2

\* _calculate_hex_width on the arguments of the call that ended
ShownHexWidth == CalculateHexWidth(face_width, num_x, margin, pointy_top)

\* C21: the width _calculate_hex_width gives agrees with the layout for
\* the same face_width, num_x, margin and orientation flag: it is 0, shown
\* as 'Margin too large', exactly when _calculate_hex_layout raises the
\* margin error, and otherwise it is the layout's hex_width, which is
\* 2 * radius under the flag (flat-top) and
\* (face_width - (num_x - 1) * margin) / num_x without it (pointy-top).
C21_WidthAgreesWithLayout ==
    LayoutEnded =>
        /\ (ShownHexWidth = I(0)) = (lpc = "raised")
        /\ (HexWidthText(face_width, num_x, margin, pointy_top).kind
                = "margin_too_large") = (result.kind = "raise")
        /\ Returned =>
              /\ ShownHexWidth = hex_width
              /\ Gt(ShownHexWidth, I(0))
              /\ HexWidthText(face_width, num_x, margin, pointy_top).cm
                    = hex_width
              /\ hex_width =
                    (IF pointy_top THEN Mul(I(2), result.radius)
                     ELSE Div(Sub(face_width, Mul(I(num_x - 1), margin)),
                              I(num_x)))

C21_Witness ==
    /\ Returned
    /\ pointy_top
    /\ num_x >= 2
    /\ Gt(margin, I(0))
    /\ ShownHexWidth = Mul(I(2), result.radius)
    /\ Len(result.centers) >= 2

=============================================================================
